---- MODULE Spec2Model ----
(***************************************************************************)
(* Model of jhsiao.utils.linkedlist: Link (a 3-slot list [pre, post, item])  *)
(* and Links (first, last, _length) with its public operations.             *)
(*                                                                         *)
(* Link objects live in `heap`, a sequence of records indexed by the link's *)
(* identity (allocation order); the Python value None is 0 both as a link   *)
(* reference and as an item.  Every operation is an operator from a          *)
(* container state to an outcome [st, err, ret]: the state the code leaves  *)
(* behind (also when it raises part-way), the kind of the exception that    *)
(* escapes ("" when none) and the returned link.                            *)
(***************************************************************************)
EXTENDS Integers, Sequences, FiniteSets, TLC

VARIABLES heap, first, last, length, res

vars == <<heap, first, last, length, res>>

\* ---- bounds ----
MaxLinks == 3      \* Link objects allocated in one behaviour of Spec
MaxInit == 2       \* length of the iterable given to the constructor in Spec
MaxItems == 2      \* length of the iterable given to extend/extendleft/insert
MaxVal == 2        \* items are drawn from 1..MaxVal
MaxBuilt == 3      \* length of the sequence a container is built from in SpecRead and SpecOp
MaxStep == 3       \* slice steps are drawn from -MaxStep..MaxStep
MaxRepl == 3       \* length of the replacement given to a slice assignment
MaxPast == 2       \* how far past either end an integer index is tried in SpecIndex

None == 0

Vals == 1..MaxVal

RECURSIVE SeqsUpTo(_)
SeqsUpTo(n) ==
  IF n = 0 THEN {<<>>}
  ELSE SeqsUpTo(n - 1) \cup {Append(s, v) : s \in {t \in SeqsUpTo(n - 1) : Len(t) = n - 1}, v \in Vals}

Abs(n) == IF n < 0 THEN -n ELSE n

\* ---- Link ----
\* Link(pre, post, item): list.__init__(self, args)
Link(pre, post, item) == [pre |-> pre, post |-> post, item |-> item]

\* link[0] = v, link[1] = v, link[2] = v on the heap
SetPre(h, l, v) == [h EXCEPT ![l].pre = v]
SetPost(h, l, v) == [h EXCEPT ![l].post = v]
SetItem(h, l, v) == [h EXCEPT ![l].item = v]

\* the loop of Link.__rshift__: n times self = self[idx]; indexing None
\* raises TypeError, which makes the method return None
RECURSIVE Walk(_, _, _, _)
Walk(h, l, forward, n) ==
  IF n = 0 THEN l
  ELSE IF l = None THEN None
  ELSE Walk(h, IF forward THEN h[l].post ELSE h[l].pre, forward, n - 1)

\* __rshift__ that follows post whatever the sign of amount
rshift_AlwaysForward(h, l, amount) == Walk(h, l, TRUE, Abs(amount))

\* Link.__rshift__(self, amount), self a Link
rshift(h, l, amount) == Walk(h, l, amount > 0, Abs(amount))

\* Link.__lshift__(self, amount)
lshift(h, l, amount) == rshift(h, l, -amount)

\* ---- Links: state and outcomes ----
State(h, f, l, n) == [heap |-> h, first |-> f, last |-> l, length |-> n]

Cur == State(heap, first, last, length)

Outcome(st, err, ret) == [st |-> st, err |-> err, ret |-> ret]

\* Links.__iter__ from a given link: items following post until None.
\* fuel stops the walk on a cyclic chain (the result is then longer than
\* any list the heap can hold).
RECURSIVE IterFrom(_, _, _)
IterFrom(h, l, fuel) ==
  IF l = None \/ fuel = 0 THEN <<>>
  ELSE <<h[l].item>> \o IterFrom(h, h[l].post, fuel - 1)

\* list(container)
Items(st) == IterFrom(st.heap, st.first, Len(st.heap) + 1)

\* Links.links(): the links following post from first
RECURSIVE LinksFrom(_, _, _)
LinksFrom(h, l, fuel) ==
  IF l = None \/ fuel = 0 THEN <<>>
  ELSE <<l>> \o LinksFrom(h, h[l].post, fuel - 1)

links(st) == LinksFrom(st.heap, st.first, Len(st.heap) + 1)

\* Call with a negative index counted from last without the + 1
Call_NoPlusOne(st, idx) ==
  LET recv == IF idx >= 0 THEN st.first ELSE st.last
      ret == rshift(st.heap, recv, idx)
  IN IF recv = None THEN Outcome(st, "IndexError", None)
     ELSE IF ret # None THEN Outcome(st, "", ret)
     ELSE Outcome(st, "IndexError", None)

\* Links.__call__(idx)
Call(st, idx) ==
  LET recv == IF idx >= 0 THEN st.first ELSE st.last
      amount == IF idx >= 0 THEN idx ELSE idx + 1
      ret == rshift(st.heap, recv, amount)
  IN IF recv = None THEN Outcome(st, "IndexError", None)
     ELSE IF ret # None THEN Outcome(st, "", ret)
     ELSE Outcome(st, "IndexError", None)

\* the chain built by insert (lines 334-343): fresh links for items, each
\* pointing back to the one before and forward to the one after
ChainLinks(h, items) ==
  [j \in 1..Len(items) |->
     Link(IF j = 1 THEN None ELSE Len(h) + j - 1,
          IF j = Len(items) THEN None ELSE Len(h) + j + 1,
          items[j])]

\* the body of Links.insert once linkOrIdx is resolved to link
InsertAtLink(st, link, items) ==
  IF Len(items) = 0 THEN Outcome(st, "", None)
  ELSE
    LET nitems == Len(items)
        h0 == st.heap \o ChainLinks(st.heap, items)
        firstl == Len(st.heap) + 1
        pre == Len(st.heap) + nitems
        \* lines 344-351: if link is None
        h1 == IF link = None
              THEN LET a == SetPre(h0, firstl, st.last)
                   IN IF st.last # None THEN SetPost(a, st.last, firstl) ELSE a
              ELSE h0
        f1 == IF link = None /\ st.last = None THEN firstl ELSE st.first
        l1 == IF link = None THEN pre ELSE st.last
        n1 == IF link = None THEN st.length + nitems ELSE st.length
    IN \* lines 352-366: try post = link[1]
       IF link = None
       THEN Outcome(State(h1, firstl, pre, nitems), "", None)
       ELSE LET post == h1[link].post
                h2 == SetPost(h1, link, firstl)
                h3 == SetPre(h2, firstl, link)
                h4 == SetPost(h3, pre, post)
                h5 == IF post # None THEN SetPre(h4, post, pre) ELSE h4
            IN Outcome(State(h5, f1, IF post # None THEN l1 ELSE pre, n1 + nitems), "", None)

\* Links.insert(linkOrIdx, items); pos is [kind |-> "int" | "link", v |-> ...]
\* (a link or None for kind "link")
insert(st, pos, items) ==
  IF pos.kind = "int"
  THEN LET i == IF pos.v < 0 THEN pos.v + st.length ELSE pos.v
       IN IF i >= st.length THEN InsertAtLink(st, None, items)
          ELSE IF i <= 0 THEN InsertAtLink(st, st.first, items)
          ELSE LET c == Call(st, i)
               IN IF c.err # "" THEN c ELSE InsertAtLink(st, c.ret, items)
  ELSE InsertAtLink(st, pos.v, items)

\* Links.extend(items, link); link = None stands for the default (None, None)
extend(st, items, link) ==
  insert(st, [kind |-> "link", v |-> IF link = None THEN None ELSE st.heap[link].post], items)

\* Links.__init__(it); it = <<>> also stands for it = None
Empty == State(<<>>, None, None, 0)

Construct(it) == extend(Empty, it, None).st

\* Links._link(item, before, after, newlink): a new Link, or newlink with
\* its three slots overwritten; gives the heap and the link
underscore_link(h, item, before, after, newlink) ==
  IF newlink = None
  THEN [heap |-> Append(h, Link(before, after, item)), link |-> Len(h) + 1]
  ELSE [heap |-> [h EXCEPT ![newlink] = Link(before, after, item)], link |-> newlink]

\* append that leaves last alone when the new link goes after the tail
append_KeepLast(st, item, link, newlink) ==
  LET lnk == IF link = None THEN st.last ELSE link
  IN IF lnk = None
     THEN LET m == underscore_link(st.heap, item, None, None, newlink)
          IN Outcome(State(m.heap, m.link, m.link, st.length + 1), "", newlink)
     ELSE LET post == st.heap[lnk].post
              m == underscore_link(st.heap, item, lnk, post, newlink)
              h1 == SetPost(m.heap, lnk, m.link)
              h2 == IF post # None THEN SetPre(h1, post, m.link) ELSE h1
          IN Outcome(State(h2, st.first, st.last, st.length + 1), "", m.link)

\* Links.append(item, link, newlink)
append(st, item, link, newlink) ==
  LET lnk == IF link = None THEN st.last ELSE link
  IN IF lnk = None
     THEN \* except TypeError (line 279): newlink keeps the argument's value
          LET m == underscore_link(st.heap, item, None, None, newlink)
          IN Outcome(State(m.heap, m.link, m.link, st.length + 1), "", newlink)
     ELSE LET post == st.heap[lnk].post
              m == underscore_link(st.heap, item, lnk, post, newlink)
              h1 == SetPost(m.heap, lnk, m.link)
              h2 == IF post # None THEN SetPre(h1, post, m.link) ELSE h1
          IN Outcome(State(h2, st.first, IF post # None THEN st.last ELSE m.link,
                           st.length + 1), "", m.link)

\* Links.appendleft(item, link, newlink)
appendleft(st, item, link, newlink) ==
  LET lnk == IF link = None THEN st.first ELSE link
  IN IF lnk = None
     THEN LET m == underscore_link(st.heap, item, None, None, newlink)
          IN Outcome(State(m.heap, m.link, m.link, st.length + 1), "", newlink)
     ELSE LET pre == st.heap[lnk].pre
              m == underscore_link(st.heap, item, pre, lnk, newlink)
              h1 == SetPre(m.heap, lnk, m.link)
              h2 == IF pre # None THEN SetPost(h1, pre, m.link) ELSE h1
          IN Outcome(State(h2, IF pre # None THEN st.first ELSE m.link, st.last,
                           st.length + 1), "", m.link)

\* the chain built by extendleft (lines 370-379): the first item's link is
\* the chain's last, every later item is linked in front of the one before
ChainLinksLeft(h, items) ==
  [j \in 1..Len(items) |->
     Link(IF j = Len(items) THEN None ELSE Len(h) + j + 1,
          IF j = 1 THEN None ELSE Len(h) + j - 1,
          items[j])]

\* extendleft that links the new chain in without reversing it
extendleft_InOrder(st, items, link) ==
  IF Len(items) = 0 THEN Outcome(st, "", None)
  ELSE
    LET nitems == Len(items)
        h0 == st.heap \o ChainLinks(st.heap, items)
        post == Len(st.heap) + 1
        lastl == Len(st.heap) + nitems
        lnk == IF link = None THEN st.first ELSE link
    IN IF lnk = None
       THEN Outcome(State(h0, post, lastl, nitems), "", None)
       ELSE LET pre == h0[lnk].pre
                h1 == SetPre(h0, lnk, lastl)
                h2 == SetPost(h1, lastl, lnk)
                h3 == SetPre(h2, post, pre)
                h4 == IF pre # None THEN SetPost(h3, pre, post) ELSE h3
            IN Outcome(State(h4, IF pre # None THEN st.first ELSE post, st.last,
                             st.length + nitems), "", None)

\* Links.extendleft(items, link)
extendleft(st, items, link) ==
  IF Len(items) = 0 THEN Outcome(st, "", None)
  ELSE
    LET nitems == Len(items)
        h0 == st.heap \o ChainLinksLeft(st.heap, items)
        lastl == Len(st.heap) + 1
        post == Len(st.heap) + nitems
        lnk == IF link = None THEN st.first ELSE link
    IN IF lnk = None
       THEN Outcome(State(h0, post, lastl, nitems), "", None)
       ELSE LET pre == h0[lnk].pre
                h1 == SetPre(h0, lnk, lastl)
                h2 == SetPost(h1, lastl, lnk)
                h3 == SetPre(h2, post, pre)
                h4 == IF pre # None THEN SetPost(h3, pre, post) ELSE h3
            IN Outcome(State(h4, IF pre # None THEN st.first ELSE post, st.last,
                             st.length + nitems), "", None)

\* pop that leaves the popped link's own pre and post as they were
pop_KeepRefs(st, arg) ==
  LET c == IF arg.kind = "int" THEN Call(st, arg.v)
           ELSE Outcome(st, "", IF arg.v = None THEN st.last ELSE arg.v)
      link == c.ret
  IN IF c.err # "" THEN c
     ELSE IF link = None THEN Outcome(st, "IndexError", None)
     ELSE LET pre == st.heap[link].pre
              post == st.heap[link].post
              h2 == IF pre # None THEN SetPost(st.heap, pre, post) ELSE st.heap
              h3 == IF post # None THEN SetPre(h2, post, pre) ELSE h2
          IN Outcome(State(h3, IF pre # None THEN st.first ELSE post,
                           IF post # None THEN st.last ELSE pre,
                           st.length - 1), "", link)

\* Links.pop(link); arg is [kind |-> "int" | "link", v |-> ...], a link
\* argument of None being the omitted one
pop(st, arg) ==
  LET c == IF arg.kind = "int" THEN Call(st, arg.v)
           ELSE Outcome(st, "", IF arg.v = None THEN st.last ELSE arg.v)
      link == c.ret
  IN IF c.err # "" THEN c
     ELSE IF link = None THEN Outcome(st, "IndexError", None)
     ELSE LET pre == st.heap[link].pre
              post == st.heap[link].post
              h1 == SetPost(SetPre(st.heap, link, None), link, None)
              h2 == IF pre # None THEN SetPost(h1, pre, post) ELSE h1
              h3 == IF post # None THEN SetPre(h2, post, pre) ELSE h2
          IN Outcome(State(h3, IF pre # None THEN st.first ELSE post,
                           IF post # None THEN st.last ELSE pre,
                           st.length - 1), "", link)

\* Links.clear(): links() is a generator that reads link[1] only after the
\* loop body has run, so the body's link[1] = None ends it after one link
clear(st) ==
  LET h1 == IF st.first = None THEN st.heap
            ELSE [st.heap EXCEPT ![st.first] = Link(None, None, None)]
  IN Outcome(State(h1, None, None, 0), "", None)

\* Links.__setitem__(idx, item) for an int idx: the item is stored, then
\* line 181 reads the local `link`, which no branch has bound
setitem_int(st, idx, item) ==
  LET c == Call(st, idx)
  IN IF c.err # "" THEN c
     ELSE Outcome([st EXCEPT !.heap = SetItem(st.heap, c.ret, item)], "UnboundLocalError", None)

\* ---- slices ----
\* an optional integer (None or an int) is <<>> or <<n>>
Omitted == <<>>

Some(n) == <<n>>

\* slice.indices(length) of the Python runtime for an index-based slice with
\* a non-zero step: the clamped (start, stop, step) triple
indices(sl, len) ==
  LET step == IF sl.step = Omitted THEN 1 ELSE sl.step[1]
      lower == IF step < 0 THEN -1 ELSE 0
      upper == IF step < 0 THEN len - 1 ELSE len
      clamp(x, dflt) ==
        IF x = Omitted THEN dflt
        ELSE IF x[1] < 0
             THEN (IF x[1] + len < lower THEN lower ELSE x[1] + len)
             ELSE (IF x[1] > upper THEN upper ELSE x[1])
  IN [start |-> clamp(sl.start, IF step < 0 THEN upper ELSE lower),
      stop |-> clamp(sl.stop, IF step < 0 THEN lower ELSE upper),
      step |-> step]

\* n times link = link[1] (or link[0]) inside try/except TypeError:
\* <<>> when None is indexed, else <<the link reached>> (which may be None)
RECURSIVE TryWalk(_, _, _, _)
TryWalk(h, l, forward, n) ==
  IF n = 0 THEN <<l>>
  ELSE IF l = None THEN <<>>
  ELSE TryWalk(h, IF forward THEN h[l].post ELSE h[l].pre, forward, n - 1)

\* the two while loops of link_islice (lines 100-118): the links yielded
\* after the first one; step is the number of hops, cur the signed offset
RECURSIVE IsliceLoop(_, _, _, _, _, _)
IsliceLoop(h, link, target, cur, step, ispos) ==
  IF (ispos /\ target > cur) \/ (~ispos /\ target < cur)
  THEN LET w == TryWalk(h, link, ispos, step)
       IN IF w = <<>> THEN <<>>
          ELSE <<w[1]>> \o IsliceLoop(h, w[1], target,
                                      IF ispos THEN cur + step ELSE cur - step,
                                      step, ispos)
  ELSE <<>>

\* link_islice without the check that step and target point the same way
link_islice_NoSignCheck(st, link, target, step) ==
  IF target = Some(0) THEN <<>>
  ELSE LET tgt == IF target = Omitted THEN st.length ELSE target[1]
           stp == IF step = Omitted \/ step = Some(0)
                  THEN (IF tgt > 0 THEN 1 ELSE -1)
                  ELSE step[1]
       IN <<link>> \o IsliceLoop(st.heap, link, tgt, stp, Abs(stp), stp > 0)

\* Links.link_islice(link, target, step) on an unchanging heap: the sequence
\* of the links it yields; target and step are optional integers
link_islice(st, link, target, step) ==
  IF target = Some(0) THEN <<>>
  ELSE LET tgt == IF target = Omitted THEN st.length ELSE target[1]
           stp == IF step = Omitted \/ step = Some(0)
                  THEN (IF tgt > 0 THEN 1 ELSE -1)
                  ELSE step[1]
           ispos == stp > 0
       IN IF ispos # (tgt > 0) THEN <<>>
          ELSE <<link>> \o IsliceLoop(st.heap, link, tgt, stp, Abs(stp), ispos)

NoCont == [first |-> None, last |-> None, length |-> 0]

ReadOutcome(st, err, ret, cont) == [st |-> st, err |-> err, ret |-> ret, cont |-> cont]

\* __getitem__ returning a container over the links of the original
\* instead of new ones
BuildSlice_ShareLinks(st, link, target, step) ==
  IF link = None THEN ReadOutcome(st, "", None, NoCont)
  ELSE LET it == link_islice(st, link, target, step)
           n == Len(it)
       IN IF n = 0 THEN ReadOutcome(st, "", None, NoCont)
          ELSE IF \E j \in 1..n : it[j] = None
          THEN ReadOutcome(st, "TypeError", None, NoCont)
          ELSE ReadOutcome(st, "", None,
                           [first |-> it[1], last |-> it[n], length |-> n])

\* lines 148-163 of Links.__getitem__: the new container built from the
\* items of the links link_islice yields
BuildSlice(st, link, target, step) ==
  IF link = None THEN ReadOutcome(st, "", None, NoCont)
  ELSE LET it == link_islice(st, link, target, step)
           n == Len(it)
       IN IF n = 0 THEN ReadOutcome(st, "", None, NoCont)
          ELSE IF \E j \in 1..n : it[j] = None
          THEN \* link[2] on a None that link_islice yielded
               ReadOutcome(st, "TypeError", None, NoCont)
          ELSE LET h1 == st.heap \o ChainLinks(st.heap, [j \in 1..n |-> st.heap[it[j]].item])
               IN ReadOutcome([st EXCEPT !.heap = h1], "", None,
                              [first |-> Len(st.heap) + 1, last |-> Len(st.heap) + n,
                               length |-> n])

\* __getitem__ that lets the TypeError of a failed walk through
getitem_int_RawError(st, idx) ==
  LET c == Call(st, idx)
  IN IF c.err # "" THEN ReadOutcome(st, "TypeError", None, NoCont)
     ELSE ReadOutcome(st, "", st.heap[c.ret].item, NoCont)

\* Links.__getitem__(idx) for an int idx
getitem_int(st, idx) ==
  LET c == Call(st, idx)
  IN IF c.err # "" THEN ReadOutcome(st, c.err, None, NoCont)
     ELSE ReadOutcome(st, "", st.heap[c.ret].item, NoCont)

\* how many times the loop body self = self[idx] of Link.__rshift__ (lines
\* 23-24) runs without raising, for n rounds from link l
RECURSIVE WalkHops(_, _, _, _)
WalkHops(h, l, forward, n) ==
  IF n = 0 \/ l = None THEN 0
  ELSE 1 + WalkHops(h, IF forward THEN h[l].post ELSE h[l].pre, forward, n - 1)

\* the next/prev steps Links.__call__(idx) takes: from first by idx for
\* idx >= 0, from last by idx + 1 otherwise (lines 124-127)
CallHops(st, idx) ==
  LET recv == IF idx >= 0 THEN st.first ELSE st.last
      amount == IF idx >= 0 THEN idx ELSE idx + 1
  IN WalkHops(st.heap, recv, amount > 0, Abs(amount))

\* Links.__getitem__(idx) for a slice idx; sl is [link, start, stop, step]:
\* link is the Link given as start (None when start is an index or omitted)
getitem_slice(st, sl) ==
  IF sl.link # None THEN BuildSlice(st, sl.link, sl.stop, sl.step)
  ELSE IF sl.step = Some(0) THEN ReadOutcome(st, "ValueError", None, NoCont)
  ELSE LET ix == indices(sl, st.length)
           fromback == (st.length - 1) - ix.start
           recv == IF ix.start < fromback THEN st.first ELSE st.last
           link == IF ix.start < fromback THEN rshift(st.heap, recv, ix.start)
                   ELSE lshift(st.heap, recv, fromback)
       IN IF recv = None THEN ReadOutcome(st, "TypeError", None, NoCont)
          ELSE BuildSlice(st, link, Some(ix.stop - ix.start), Some(ix.step))

\* ---- slice assignment (Links.__setitem__ with a slice) ----

\* the generator object link_islice(link, target, step) returns, before its
\* first next(): nothing of its body has run yet
islice_gen(link, target, step) ==
  [phase |-> "new", link |-> link, target |-> target, step |-> step,
   cur |-> 0, ispos |-> TRUE]

StopIteration(g) == [val |-> <<>>, gen |-> [g EXCEPT !.phase = "done"]]

\* next(it) on a link_islice generator, run against the heap as it is at
\* the time of the call: val is <<>> for StopIteration, else <<the link
\* yielded>> (which may be None); gen is the generator afterwards
islice_next(st, g) ==
  IF g.phase = "done" THEN StopIteration(g)
  ELSE IF g.phase = "new"
  THEN IF g.target = Some(0) THEN StopIteration(g)
       ELSE LET tgt == IF g.target = Omitted THEN st.length ELSE g.target[1]
                stp == IF g.step = Omitted \/ g.step = Some(0)
                       THEN (IF tgt > 0 THEN 1 ELSE -1)
                       ELSE g.step[1]
                ispos == stp > 0
            IN IF ispos # (tgt > 0) THEN StopIteration(g)
               ELSE [val |-> <<g.link>>,
                     gen |-> [phase |-> "run", link |-> g.link, target |-> Some(tgt),
                              step |-> Some(Abs(stp)), cur |-> stp, ispos |-> ispos]]
  ELSE LET tgt == g.target[1]
           step == g.step[1]
       IN IF (g.ispos /\ tgt > g.cur) \/ (~g.ispos /\ tgt < g.cur)
          THEN LET w == TryWalk(st.heap, g.link, g.ispos, step)
               IN IF w = <<>> THEN StopIteration(g)
                  ELSE [val |-> w,
                        gen |-> [g EXCEPT !.link = w[1],
                                          !.cur = IF g.ispos THEN @ + step ELSE @ - step]]
          ELSE StopIteration(g)

\* what a loop over the generator leaves: the state, the generator, the
\* number of items taken from iter(item), the (link, item) pairs collected
Loop(st, gen, k, pairs, err) ==
  [st |-> st, gen |-> gen, k |-> k, pairs |-> pairs, err |-> err]

\* lines 196-197: for link, thing in zip(it, items): link[2] = thing
\* zip asks it first, so a link is lost when items runs out
RECURSIVE ZipAssign(_, _, _, _)
ZipAssign(st, g, items, k) ==
  LET r == islice_next(st, g)
  IN IF r.val = <<>> \/ k >= Len(items) THEN Loop(st, r.gen, k, <<>>, "")
     ELSE IF r.val[1] = None THEN Loop(st, r.gen, k + 1, <<>>, "TypeError")
     ELSE ZipAssign([st EXCEPT !.heap = SetItem(st.heap, r.val[1], items[k + 1])],
                    r.gen, items, k + 1)

\* lines 198-207: every link the generator still yields gets pre, post and
\* item set to None; the generator reads the links this loop has changed
RECURSIVE ClearExtra(_, _)
ClearExtra(st, g) ==
  LET r == islice_next(st, g)
  IN IF r.val = <<>> THEN Outcome(st, "", None)
     ELSE IF r.val[1] = None THEN Outcome(st, "TypeError", None)
     ELSE ClearExtra([st EXCEPT !.heap[r.val[1]] = Link(None, None, None)], r.gen)

\* line 210: pairs = list(zip(it, items))
RECURSIVE ZipPairs(_, _, _, _)
ZipPairs(st, g, items, pairs) ==
  LET r == islice_next(st, g)
      k == Len(pairs)
  IN IF r.val = <<>> \/ k >= Len(items) THEN Loop(st, r.gen, k, pairs, "")
     ELSE ZipPairs(st, r.gen, items, Append(pairs, <<r.val[1], items[k + 1]>>))

\* lines 221-222: for link, item in pairs: link[2] = item
RECURSIVE AssignPairs(_, _)
AssignPairs(st, pairs) ==
  IF pairs = <<>> THEN Outcome(st, "", None)
  ELSE IF pairs[1][1] = None THEN Outcome(st, "TypeError", None)
  ELSE AssignPairs([st EXCEPT !.heap = SetItem(st.heap, pairs[1][1], pairs[1][2])],
                   Tail(pairs))

\* lines 183-207: step is 1 or -1
setitem_unit(st, link, target, step, items) ==
  LET r == islice_next(st, islice_gen(link, target, Some(step)))
  IN IF r.val = <<>>
     THEN \* except StopIteration: the slice is empty, link is still the start
          IF step # 1 THEN Outcome(st, "", None)
          ELSE IF link = None THEN Outcome(st, "TypeError", None)
          ELSE IF st.heap[link].pre = None
          THEN \* tmp = Links(items); if len(tmp): self.first = tmp.first
               LET tmp == extend(State(st.heap, None, None, 0), items, None)
               IN Outcome(State(tmp.st.heap,
                                IF tmp.err = "" /\ tmp.st.length # 0
                                THEN tmp.st.first ELSE st.first,
                                st.last, st.length), tmp.err, None)
          ELSE LET e == extend(st, items, link)
               IN Outcome(e.st, e.err, None)
     ELSE \* the first link yielded is taken by next(it) and skipped
          LET z == ZipAssign(st, r.gen, items, 0)
          IN IF z.err # "" THEN Outcome(z.st, z.err, None)
             ELSE ClearExtra(z.st, z.gen)

\* lines 208-222: any other step; nothing changes unless the lengths agree
setitem_extended(st, link, target, step, items) ==
  LET z == ZipPairs(st, islice_gen(link, target, Some(step)), items, <<>>)
      r == islice_next(st, z.gen)
  IN IF r.val # <<>> THEN Outcome(st, "Exception", None)
     ELSE IF z.k < Len(items) THEN Outcome(st, "Exception", None)
     ELSE AssignPairs(st, z.pairs)

\* Links.__setitem__(idx, item) for a slice idx; sl is [link, start, stop,
\* step] as for getitem_slice, items is list(item)
setitem_slice(st, sl, items) ==
  LET body(link, target, step) ==
        IF step = 1 \/ step = -1 THEN setitem_unit(st, link, target, step, items)
        ELSE setitem_extended(st, link, target, step, items)
  IN IF sl.link # None
     THEN body(sl.link, sl.stop,
               IF sl.step = Omitted \/ sl.step = Some(0) THEN 1 ELSE sl.step[1])
     ELSE IF sl.step = Some(0) THEN Outcome(st, "ValueError", None)
     ELSE LET ix == indices(sl, st.length)
              fromback == (st.length - 1) - ix.start
              recv == IF ix.start < fromback THEN st.first ELSE st.last
              link == IF ix.start < fromback THEN rshift(st.heap, recv, ix.start)
                      ELSE lshift(st.heap, recv, fromback)
          IN IF recv = None THEN Outcome(st, "TypeError", None)
             ELSE body(link, Some(ix.stop - ix.start), ix.step)

\* a == b where a is a Links: the class defines no __eq__ (lines 37-79) and
\* list.__eq__ does not know Links, so Python compares the two objects'
\* identities; an object is [id, items]
eq(a, b) == a.id = b.id

\* list(c) of a container a slice read returned
ContItems(h, cont) == IterFrom(h, cont.first, Len(h) + 1)

\* ---- the state machine ----
NoSlice == [link |-> None, start |-> Omitted, stop |-> Omitted, step |-> Omitted]

\* target and cont are for an operation on one of two containers: which one
\* it was applied to, and the other container's handle before it
NoArgs == [item |-> None, items |-> <<>>, link |-> None, newlink |-> None,
           pos |-> [kind |-> "link", v |-> None], idx |-> 0, slice |-> NoSlice,
           target |-> "self", cont |-> NoCont, amount |-> 0]

\* what the last operation was, the state it started from, its outcome, and
\* the sequence the container was constructed from while nothing has
\* changed it since (<<>> afterwards)
Result(op, old, err, ret, cont, args, built) ==
  [op |-> op, old |-> old, err |-> err, ret |-> ret, cont |-> cont,
   args |-> args, built |-> built]

Apply(op, out, args) ==
  /\ heap' = out.st.heap
  /\ first' = out.st.first
  /\ last' = out.st.last
  /\ length' = out.st.length
  /\ res' = Result(op, Cur, out.err, out.ret, NoCont, args, <<>>)

ApplyRead(op, out, args) ==
  /\ heap' = out.st.heap
  /\ first' = out.st.first
  /\ last' = out.st.last
  /\ length' = out.st.length
  /\ res' = Result(op, Cur, out.err, out.ret, out.cont, args, res.built)

\* Links(it) for it drawn from its
Constructed(its) ==
  \E it \in its :
    LET st == Construct(it)
    IN /\ heap = st.heap
       /\ first = st.first
       /\ last = st.last
       /\ length = st.length
       /\ res = Result("init", Empty, "", None, NoCont, NoArgs, it)

Init == Constructed(SeqsUpTo(MaxInit))

\* the links a caller can hold: those links() yields
OwnLinks == {links(Cur)[i] : i \in 1..Len(links(Cur))}

\* a link a caller got back from the pop just before and that nothing
\* refers to any more ("newlink: reuse a link, should have been popped")
Popped ==
  IF /\ res.op = "pop"
     /\ res.err = ""
     /\ first # res.ret
     /\ last # res.ret
     /\ \A l \in 1..Len(heap) : heap[l].pre # res.ret /\ heap[l].post # res.ret
  THEN {res.ret} ELSE {}

\* integer positions tried: every valid index and one past either end
Indices == (0 - length - 1)..length

Positions == {[kind |-> "link", v |-> l] : l \in OwnLinks \cup {None}}
             \cup {[kind |-> "int", v |-> i] : i \in Indices}

\* at most cap Link objects are ever allocated
Room(cap, n) == Len(heap) + n <= cap

DoAppend(cap) ==
  \E item \in Vals, link \in OwnLinks \cup {None}, newlink \in Popped \cup {None} :
    /\ newlink = None => Room(cap, 1)
    /\ Apply("append", append(Cur, item, link, newlink),
             [NoArgs EXCEPT !.item = item, !.link = link, !.newlink = newlink])

DoAppendLeft(cap) ==
  \E item \in Vals, link \in OwnLinks \cup {None}, newlink \in Popped \cup {None} :
    /\ newlink = None => Room(cap, 1)
    /\ Apply("appendleft", appendleft(Cur, item, link, newlink),
             [NoArgs EXCEPT !.item = item, !.link = link, !.newlink = newlink])

DoExtend(cap) ==
  \E items \in SeqsUpTo(MaxItems), link \in OwnLinks \cup {None} :
    /\ Room(cap, Len(items))
    /\ Apply("extend", extend(Cur, items, link),
             [NoArgs EXCEPT !.items = items, !.link = link])

DoExtendLeft(cap) ==
  \E items \in SeqsUpTo(MaxItems), link \in OwnLinks \cup {None} :
    /\ Room(cap, Len(items))
    /\ Apply("extendleft", extendleft(Cur, items, link),
             [NoArgs EXCEPT !.items = items, !.link = link])

DoInsert(cap) ==
  \E items \in SeqsUpTo(MaxItems), pos \in Positions :
    /\ Room(cap, Len(items))
    /\ Apply("insert", insert(Cur, pos, items),
             [NoArgs EXCEPT !.items = items, !.pos = pos])

DoPop ==
  \E pos \in Positions :
    Apply("pop", pop(Cur, pos), [NoArgs EXCEPT !.pos = pos])

DoClear == Apply("clear", clear(Cur), NoArgs)

DoSetItem ==
  \E idx \in Indices, item \in Vals :
    Apply("setitem", setitem_int(Cur, idx, item),
          [NoArgs EXCEPT !.idx = idx, !.item = item])

Next ==
  \/ DoAppend(MaxLinks)
  \/ DoAppendLeft(MaxLinks)
  \/ DoExtend(MaxLinks)
  \/ DoExtendLeft(MaxLinks)
  \/ DoInsert(MaxLinks)
  \/ DoPop
  \/ DoClear
  \/ DoSetItem

Spec == Init /\ [][Next]_vars

\* ---- one operation on a container built from a sequence ----
InitBuilt == Constructed(SeqsUpTo(MaxBuilt))

\* room for the links of any one operation
OpCap == MaxBuilt + MaxItems

NextOp ==
  \/ res.op = "init" /\ DoAppend(OpCap)
  \/ res.op = "init" /\ DoAppendLeft(OpCap)
  \/ res.op = "init" /\ DoExtend(OpCap)
  \/ res.op = "init" /\ DoExtendLeft(OpCap)
  \/ res.op = "init" /\ DoInsert(OpCap)
  \/ res.op = "init" /\ DoPop
  \/ res.op = "init" /\ DoClear
  \/ res.op = "init" /\ DoSetItem

SpecOp == InitBuilt /\ [][NextOp]_vars

\* ---- one read of a container built from a reference sequence ----

\* container[idx]
DoGetItem ==
  \E idx \in Indices :
    /\ res.op = "init"
    /\ ApplyRead("getitem", getitem_int(Cur, idx), [NoArgs EXCEPT !.idx = idx])

\* container(idx)
DoCall ==
  \E idx \in Indices :
    /\ res.op = "init"
    /\ ApplyRead("call", ReadOutcome(Cur, Call(Cur, idx).err, Call(Cur, idx).ret, NoCont),
                 [NoArgs EXCEPT !.idx = idx])

Bounds == {Omitted} \cup {Some(i) : i \in (0 - length - 2)..(length + 2)}

Steps == {Omitted} \cup {Some(i) : i \in (0 - MaxStep)..MaxStep}

\* container[start:stop:step] with start an index or omitted
DoGetSlice ==
  \E start \in Bounds, stop \in Bounds, step \in Steps :
    /\ res.op = "init"
    /\ LET sl == [link |-> None, start |-> start, stop |-> stop, step |-> step]
       IN ApplyRead("getslice", getitem_slice(Cur, sl), [NoArgs EXCEPT !.slice = sl])

\* amounts tried: enough to step off either end from any link
Amounts == (0 - length - 1)..(length + 1)

\* link >> amount for a link of the container
DoRShift ==
  \E link \in OwnLinks, amount \in Amounts :
    /\ res.op = "init"
    /\ ApplyRead("rshift", ReadOutcome(Cur, "", rshift(heap, link, amount), NoCont),
                 [NoArgs EXCEPT !.link = link, !.amount = amount])

\* link << amount for a link of the container
DoLShift ==
  \E link \in OwnLinks, amount \in Amounts :
    /\ res.op = "init"
    /\ ApplyRead("lshift", ReadOutcome(Cur, "", lshift(heap, link, amount), NoCont),
                 [NoArgs EXCEPT !.link = link, !.amount = amount])

NextRead ==
  \/ DoGetItem
  \/ DoCall
  \/ DoGetSlice
  \/ DoRShift
  \/ DoLShift

SpecRead == InitBuilt /\ [][NextRead]_vars

\* ---- one slice read or assignment on a container of distinct items ----

\* Links([1, .., n]) for n up to MaxBuilt: no operation looks at an item,
\* so distinct items tell every link apart
InitDistinct == Constructed({[j \in 1..n |-> j] : n \in 0..MaxBuilt})

\* the replacements tried: up to MaxRepl items that are not in the container
Replacements == {[j \in 1..k |-> MaxBuilt + j] : k \in 0..MaxRepl}

\* container[start:stop:step] = items with start an index or omitted
DoSetSlice ==
  \E start \in Bounds, stop \in Bounds, step \in Steps, items \in Replacements :
    /\ res.op = "init"
    /\ LET sl == [link |-> None, start |-> start, stop |-> stop, step |-> step]
       IN Apply("setslice", setitem_slice(Cur, sl, items),
                [NoArgs EXCEPT !.slice = sl, !.items = items])

\* container[link:stop:step] = items with start a link of the container
DoSetSliceLink ==
  \E link \in OwnLinks, stop \in Bounds, step \in Steps, items \in Replacements :
    /\ res.op = "init"
    /\ LET sl == [link |-> link, start |-> Omitted, stop |-> stop, step |-> step]
       IN Apply("setslice", setitem_slice(Cur, sl, items),
                [NoArgs EXCEPT !.slice = sl, !.items = items])

\* container[link:stop:step] with start a link of the container
DoGetSliceLink ==
  \E link \in OwnLinks, stop \in Bounds, step \in Steps :
    /\ res.op = "init"
    /\ LET sl == [link |-> link, start |-> Omitted, stop |-> stop, step |-> step]
       IN ApplyRead("getslice", getitem_slice(Cur, sl), [NoArgs EXCEPT !.slice = sl])

NextSlice ==
  \/ DoSetSlice
  \/ DoSetSliceLink
  \/ DoGetSlice
  \/ DoGetSliceLink

SpecSlice == InitDistinct /\ [][NextSlice]_vars

\* ---- c[:] and then one mutation of the container or of the copy ----

\* the container a slice read returned, as a container of its own
CopyState == State(heap, res.cont.first, res.cont.last, res.cont.length)

Target(who) == IF who = "self" THEN Cur ELSE CopyState

LinksOf(st) == {links(st)[i] : i \in 1..Len(links(st))}

\* an operation applied to the container (who = "self") or to the copy
ApplyTo(who, op, out, args) ==
  /\ heap' = out.st.heap
  /\ first' = IF who = "self" THEN out.st.first ELSE first
  /\ last' = IF who = "self" THEN out.st.last ELSE last
  /\ length' = IF who = "self" THEN out.st.length ELSE length
  /\ res' = Result(op, Cur, out.err, out.ret,
                   IF who = "self" THEN res.cont
                   ELSE [first |-> out.st.first, last |-> out.st.last,
                         length |-> out.st.length],
                   [args EXCEPT !.target = who, !.cont = res.cont], res.built)

\* copy = container[:]
DoCopy ==
  /\ res.op = "init"
  /\ ApplyRead("getslice", getitem_slice(Cur, NoSlice), NoArgs)

Copied == res.op = "getslice" /\ res.err = ""

Who == {"self", "copy"}

DoCopyAppend ==
  \E who \in Who, item \in Vals :
    \E link \in LinksOf(Target(who)) \cup {None} :
      /\ Copied
      /\ ApplyTo(who, "append", append(Target(who), item, link, None),
                 [NoArgs EXCEPT !.item = item, !.link = link])

DoCopyPop ==
  \E who \in Who :
    \E pos \in {[kind |-> "link", v |-> l] : l \in LinksOf(Target(who)) \cup {None}}
               \cup {[kind |-> "int", v |-> i] :
                        i \in (0 - Target(who).length - 1)..Target(who).length} :
      /\ Copied
      /\ ApplyTo(who, "pop", pop(Target(who), pos), [NoArgs EXCEPT !.pos = pos])

DoCopySetItem ==
  \E who \in Who, item \in Vals :
    \E idx \in (0 - Target(who).length - 1)..Target(who).length :
      /\ Copied
      /\ ApplyTo(who, "setitem", setitem_int(Target(who), idx, item),
                 [NoArgs EXCEPT !.idx = idx, !.item = item])

DoCopyClear ==
  \E who \in Who :
    /\ Copied
    /\ ApplyTo(who, "clear", clear(Target(who)), NoArgs)

NextCopy ==
  \/ DoCopy
  \/ DoCopyAppend
  \/ DoCopyPop
  \/ DoCopySetItem
  \/ DoCopyClear

SpecCopy == InitBuilt /\ [][NextCopy]_vars

\* ---- one integer index lookup or one pop ----

\* every valid index and up to MaxPast past either end
PastIndices == (0 - length - MaxPast)..(length + MaxPast - 1)

\* container[idx]
DoGetItemPast ==
  \E idx \in PastIndices :
    /\ res.op = "init"
    /\ ApplyRead("getitem", getitem_int(Cur, idx), [NoArgs EXCEPT !.idx = idx])

\* container(idx)
DoCallPast ==
  \E idx \in PastIndices :
    /\ res.op = "init"
    /\ ApplyRead("call", ReadOutcome(Cur, Call(Cur, idx).err, Call(Cur, idx).ret, NoCont),
                 [NoArgs EXCEPT !.idx = idx])

\* container.pop(pos), pos a link, an index or omitted
DoPopOnce ==
  /\ res.op = "init"
  /\ DoPop

NextIndex ==
  \/ DoGetItemPast
  \/ DoCallPast
  \/ DoPopOnce

SpecIndex == InitBuilt /\ [][NextIndex]_vars

\* ---- sanity of the model ----
TypeOK ==
  /\ first \in 0..Len(heap)
  /\ last \in 0..Len(heap)
  /\ \A l \in 1..Len(heap) : heap[l].pre \in 0..Len(heap) /\ heap[l].post \in 0..Len(heap)

\* ---- the data-model invariants and reference sequences ----
Reverse(s) == [j \in 1..Len(s) |-> s[Len(s) + 1 - j]]

\* s[:i] + t + s[i:]
InsertSeq(s, i, t) == SubSeq(s, 1, i) \o t \o SubSeq(s, i + 1, Len(s))

\* s without its element at 0-based position i
RemoveAt(s, i) == SubSeq(s, 1, i) \o SubSeq(s, i + 2, Len(s))

\* 0-based position of link l among the links of st
IndexOf(st, l) == CHOOSE i \in 0..(Len(links(st)) - 1) : links(st)[i + 1] = l

\* r[i] of a Python list for i in [-len, len)
PyIndex(r, i) == r[IF i < 0 THEN i + Len(r) + 1 ELSE i + 1]

\* len(range(start, stop, step))
RangeLen(ix) ==
  IF ix.step > 0
  THEN (IF ix.stop > ix.start THEN (ix.stop - ix.start - 1) \div ix.step + 1 ELSE 0)
  ELSE (IF ix.stop < ix.start THEN (ix.start - ix.stop - 1) \div (0 - ix.step) + 1 ELSE 0)

\* r[start:stop:step] of a Python list
RefSlice(r, sl) ==
  LET ix == indices(sl, Len(r))
  IN [k \in 1..RangeLen(ix) |-> r[ix.start + (k - 1) * ix.step + 1]]

\* the links following pre from last
RECURSIVE LinksBack(_, _, _)
LinksBack(h, l, fuel) ==
  IF l = None \/ fuel = 0 THEN <<>>
  ELSE <<l>> \o LinksBack(h, h[l].pre, fuel - 1)

\* the container is a proper doubly-linked list: count links forward and
\* backward, each link's neighbours agree, the ends are closed
WellFormed(st) ==
  LET fw == links(st)
      bw == LinksBack(st.heap, st.last, Len(st.heap) + 1)
  IN /\ st.length >= 0
     /\ Len(fw) = st.length
     /\ Len(bw) = st.length
     /\ \A j \in 1..st.length : bw[j] = fw[st.length + 1 - j]
     /\ (st.length = 0) <=> (st.first = None)
     /\ (st.length = 0) <=> (st.last = None)
     /\ st.first # None => st.heap[st.first].pre = None
     /\ st.last # None => st.heap[st.last].post = None

Old == res.old

\* ---- C1 ----
\* C1: after any sequence of public operations every link reachable from
\* first has a successor whose pre is that link, and in a non-empty
\* container first.pre and last.post are None.
C1_LinksAgree ==
  /\ \A j \in 1..Len(links(Cur)) :
       LET a == links(Cur)[j]
       IN heap[a].post # None => heap[heap[a].post].pre = a
  /\ first # None => /\ heap[first].pre = None
                     /\ last # None
                     /\ heap[last].post = None

\* ---- C2 ----
\* C2: len(container) is the number of links from first following post
\* and from last following pre; append/appendleft add 1 to it, a
\* successful pop takes 1 off, extend/extendleft/insert of k items add k.
C2_LengthCounts ==
  /\ length = Len(links(Cur))
  /\ length = Len(LinksBack(heap, last, Len(heap) + 1))
  /\ (res.op \in {"append", "appendleft"} /\ res.err = "") => length = Old.length + 1
  /\ (res.op = "pop" /\ res.err = "") => length = Old.length - 1
  /\ (res.op \in {"extend", "extendleft", "insert"} /\ res.err = "")
       => length = Old.length + Len(res.args.items)

\* ---- C3 ----
\* C3: after any sequence of public operations _length is 0 exactly when
\* first is None and exactly when last is None.
C3_EmptyIffNoEnds ==
  /\ (length = 0) <=> (first = None)
  /\ (length = 0) <=> (last = None)

\* ---- C4 ----
\* C4: for a container built from R and every i in [-len(R), len(R)),
\* container[i] is R[i] and the link container(i) returns holds R[i].
C4_IndexReads ==
  LET r == res.built
      i == res.args.idx
  IN (res.op \in {"getitem", "call"} /\ i >= 0 - Len(r) /\ i < Len(r)) =>
       /\ res.err = ""
       /\ res.op = "getitem" => res.ret = PyIndex(r, i)
       /\ res.op = "call" => res.ret # None /\ heap[res.ret].item = PyIndex(r, i)

\* a negative index in the middle of a three-item container was read both ways
C4_Witness ==
  /\ res.op \in {"getitem", "call"}
  /\ Len(res.built) = 3
  /\ res.built[1] # res.built[2]
  /\ res.args.idx = -2
  /\ res.err = ""

\* ---- C5 ----
\* C5: for a container built from a non-empty R, every start and stop and
\* every non-zero step, the items of container[start:stop:step] are
\* R[start:stop:step], in order.
C5_SliceReads ==
  (res.op = "getslice" /\ Len(res.built) > 0 /\ res.args.slice.step # Some(0)) =>
    /\ res.err = ""
    /\ ContItems(heap, res.cont) = RefSlice(res.built, res.args.slice)
    /\ res.cont.length = Len(RefSlice(res.built, res.args.slice))

\* a backward slice with a step of 2 and a negative start gave two items
C5_Witness ==
  /\ res.op = "getslice"
  /\ Len(res.built) = 3
  /\ res.args.slice.step = Some(-2)
  /\ res.args.slice.start = Some(-1)
  /\ res.args.slice.stop = Omitted
  /\ res.cont.length = 2
  /\ res.built[1] # res.built[3]

\* ---- C6 ----
\* C6: extend(items) without a link on a container holding S leaves it
\* holding S followed by items, with len increased by the number of items.
C6_ExtendAtEnd ==
  (res.op = "extend" /\ res.args.link = None) =>
    /\ Items(Cur) = Items(Old) \o res.args.items
    /\ length = Old.length + Len(res.args.items)

\* ---- C7 ----
\* C7: insert(position, items) on a container holding S puts the items in
\* order at the position: S[:i] + items + S[i:] for the link at index i or
\* the integer i, S + items for None; no items leave the container as it was.
C7_InsertAtPosition ==
  LET s == Items(Old)
      pos == res.args.pos
      items == res.args.items
  IN res.op = "insert" =>
       /\ (pos.kind = "link" /\ pos.v # None)
            => Items(Cur) = InsertSeq(s, IndexOf(Old, pos.v), items)
       /\ (pos.kind = "int" /\ pos.v >= 0 /\ pos.v < Len(s))
            => Items(Cur) = InsertSeq(s, pos.v, items)
       /\ (pos.kind = "link" /\ pos.v = None) => Items(Cur) = s \o items
       /\ items = <<>> => Cur = Old

\* ---- C8 ----
\* C8: append(item, link) puts item right after link (after the tail when
\* link is omitted) and makes it the tail when link was the tail;
\* appendleft(item, link) puts item right before link (before the head
\* when omitted) and makes it the head when link was the head; the items
\* already there keep their order and len grows by 1.
C8_AppendAtLink ==
  LET s == Items(Old)
      link == res.args.link
      item == res.args.item
      after == IF link = None THEN Len(s) ELSE IndexOf(Old, link) + 1
      before == IF link = None THEN 0 ELSE IndexOf(Old, link)
  IN /\ res.op = "append" =>
          /\ Items(Cur) = InsertSeq(s, after, <<item>>)
          /\ length = Old.length + 1
          /\ first = (IF Old.first = None THEN last ELSE Old.first)
          /\ IF after = Len(s)
             THEN last # Old.last /\ heap[last] = Link(Old.last, None, item)
             ELSE last = Old.last
          /\ WellFormed(Cur)
     /\ res.op = "appendleft" =>
          /\ Items(Cur) = InsertSeq(s, before, <<item>>)
          /\ length = Old.length + 1
          /\ last = (IF Old.last = None THEN first ELSE Old.last)
          /\ IF before = 0
             THEN first # Old.first /\ heap[first] = Link(None, Old.first, item)
             ELSE first = Old.first
          /\ WellFormed(Cur)

\* an item was appended after a link that was not the tail
C8_Witness ==
  /\ res.op = "append"
  /\ Old.length = 2
  /\ res.args.link = Old.first
  /\ Items(Old)[1] # Items(Old)[2]
  /\ length = 3

\* ---- C9 ----
\* C9: extendleft(items, link) puts the items right before link (before
\* the head when link is omitted) in reverse order: [xk..x1] + S for
\* extendleft([x1..xk]) on S, and len grows by k.
C9_ExtendLeftReverses ==
  LET s == Items(Old)
      link == res.args.link
      at == IF link = None THEN 0 ELSE IndexOf(Old, link)
  IN res.op = "extendleft" =>
       /\ Items(Cur) = InsertSeq(s, at, Reverse(res.args.items))
       /\ length = Old.length + Len(res.args.items)
       /\ WellFormed(Cur)

\* two different items were put before the head of a non-empty container
C9_Witness ==
  /\ res.op = "extendleft"
  /\ Old.length >= 1
  /\ res.args.link = None
  /\ Len(res.args.items) = 2
  /\ res.args.items[1] # res.args.items[2]
  /\ Items(Cur)[1] = res.args.items[2]

\* ---- C10 ----
\* C10: pop(position) for a link of the container, an index in range or
\* no argument (the tail) removes exactly that link: the other items keep
\* their order, len goes down by 1, first/last follow when an end was
\* removed, and the returned link keeps its item with pre = post = None.
C10_PopRemovesLink ==
  LET s == Items(Old)
      pos == res.args.pos
      n == Old.length
      i == IF pos.kind = "int" THEN (IF pos.v < 0 THEN pos.v + n ELSE pos.v)
           ELSE IF pos.v = None THEN n - 1
           ELSE IndexOf(Old, pos.v)
  IN (/\ res.op = "pop"
      /\ n > 0
      /\ pos.kind = "int" => (pos.v >= 0 - n /\ pos.v < n)) =>
       /\ res.err = ""
       /\ res.ret = links(Old)[i + 1]
       /\ links(Cur) = RemoveAt(links(Old), i)
       /\ Items(Cur) = RemoveAt(s, i)
       /\ length = n - 1
       /\ first = (IF i = 0 THEN Old.heap[Old.first].post ELSE Old.first)
       /\ last = (IF i = n - 1 THEN Old.heap[Old.last].pre ELSE Old.last)
       /\ heap[res.ret] = Link(None, None, s[i + 1])
       /\ WellFormed(Cur)

\* the middle link of a three-item container was popped
C10_Witness ==
  /\ res.op = "pop"
  /\ Old.length = 3
  /\ res.ret = links(Old)[2]
  /\ length = 2

\* ---- C11 ----
\* C11: clear() leaves every link that was in the container, not only the
\* first, with pre = post = None, and the container with first = last =
\* None and length 0.
C11_ClearDetachesAll ==
  res.op = "clear" =>
    /\ \A j \in 1..Len(links(Old)) :
         LET l == links(Old)[j]
         IN heap[l].pre = None /\ heap[l].post = None
    /\ first = None
    /\ last = None
    /\ length = 0

\* ---- reference semantics of slice assignment on a Python list ----

\* the slice and the replacement of the last slice assignment
Sl == res.args.slice

Repl == res.args.items

\* 0-based positions a link-based slice targets: from position i, every
\* s-th position while fewer than |k| positions have been travelled and the
\* list has not ended; nothing when s and k point different ways
LinkPositions(n, i, k, s) ==
  IF k = 0 \/ (s > 0) # (k > 0) THEN <<>>
  ELSE LET m == (Abs(k) - 1) \div Abs(s) + 1
           inside == {j \in 0..(m - 1) : i + j * s >= 0 /\ i + j * s < n}
       IN [j \in 1..Cardinality(inside) |-> i + (j - 1) * s]

\* 0-based positions of range(*slice.indices(n))
IndexPositions(n, sl) ==
  LET ix == indices(sl, n)
  IN [j \in 1..RangeLen(ix) |-> ix.start + (j - 1) * ix.step]

\* positions the slice sl targets in the container st, the step being
\* dflt when omitted (for a link start: the sign of the offset when dflt = 0)
Targeted(st, sl, dflt) ==
  IF sl.link = None THEN IndexPositions(st.length, sl)
  ELSE LET k == IF sl.stop = Omitted THEN st.length ELSE sl.stop[1]
           s == IF sl.step # Omitted THEN sl.step[1]
                ELSE IF dflt # 0 THEN dflt
                ELSE IF k < 0 THEN -1 ELSE 1
       IN LinkPositions(st.length, IndexOf(st, sl.link), k, s)

\* r after r[a:b] = t
RefAssign(r, sl, t) ==
  LET ix == indices(sl, Len(r))
      stop == IF ix.stop < ix.start THEN ix.start ELSE ix.stop
  IN SubSeq(r, 1, ix.start) \o t \o SubSeq(r, stop + 1, Len(r))

\* r after r[pos[j]] = t[j] for every j
RefAssignAt(r, pos, t) ==
  [j \in 1..Len(r) |->
     IF \E q \in 1..Len(pos) : pos[q] = j - 1
     THEN t[CHOOSE q \in 1..Len(pos) : pos[q] = j - 1]
     ELSE r[j]]

\* the slice has an explicit step of 2 or more either way
ExtendedStep == Sl.step # Omitted /\ Abs(Sl.step[1]) >= 2

\* no link was made and no pre or post reference changed
SameChain ==
  /\ first = Old.first
  /\ last = Old.last
  /\ length = Old.length
  /\ Len(heap) = Len(Old.heap)
  /\ \A l \in 1..Len(heap) :
       heap[l].pre = Old.heap[l].pre /\ heap[l].post = Old.heap[l].post

\* ---- C12 ----
\* C12: for an index-based slice [a:b] with step 1 and a replacement of
\* any length, after container[a:b] = repl the items and len of the
\* container are those of the reference list R after R[a:b] = repl.
C12_UnitSliceAssign ==
  (res.op = "setslice" /\ Sl.link = None /\ Sl.step \in {Omitted, Some(1)}) =>
    /\ res.err = ""
    /\ Items(Cur) = RefAssign(Items(Old), Sl, Repl)
    /\ length = Len(RefAssign(Items(Old), Sl, Repl))

\* ---- C13 ----
\* C13: a slice assignment with |step| >= 2 whose replacement is longer or
\* shorter than the number of targeted links fails with an error and
\* leaves items, links and count exactly as they were.
C13_MismatchRejected ==
  (/\ res.op = "setslice"
   /\ ExtendedStep
   /\ Len(Repl) # Len(Targeted(Old, Sl, 1))) =>
    /\ res.err # ""
    /\ Cur = Old

\* ---- C14 ----
\* C14: the error an extended-step slice assignment raises for a length
\* mismatch on a non-empty container is of ValueError kind.
C14_MismatchIsValueError ==
  (/\ res.op = "setslice"
   /\ ExtendedStep
   /\ Old.length > 0
   /\ Len(Repl) # Len(Targeted(Old, Sl, 1))
   /\ res.err # "") =>
    res.err = "ValueError"

\* ---- C15 ----
\* C15: a slice assignment with |step| >= 2 (either sign) whose replacement
\* has as many items as links are targeted succeeds, the items become those
\* of the reference list after the same assignment, and count, first, last
\* and every pre/post reference are unchanged.
C15_EqualLengthAssign ==
  (/\ res.op = "setslice"
   /\ ExtendedStep
   /\ Len(Repl) = Len(Targeted(Old, Sl, 1))) =>
    /\ res.err = ""
    /\ Items(Cur) = RefAssignAt(Items(Old), Targeted(Old, Sl, 1), Repl)
    /\ SameChain

\* ---- C16 ----
\* C16: a slice with step 0 is rejected with an error, whether its start
\* is an index or a Link and whether it is read or assigned to, and the
\* container is left as it was.
C16_ZeroStepRejected ==
  (res.op \in {"getslice", "setslice"} /\ Sl.step = Some(0)) =>
    /\ res.err # ""
    /\ first = Old.first
    /\ last = Old.last
    /\ length = Old.length
    /\ \A l \in 1..Len(Old.heap) : heap[l] = Old.heap[l]

\* ---- C17 ----
\* C17: container[i] = v for an integer i in [-len, len) completes without
\* error, replaces the item of the link at index i by v, and leaves count,
\* first, last, every pre/post reference and every other item unchanged.
C17_IndexAssign ==
  LET n == Old.length
      i == res.args.idx
      at == IF i < 0 THEN i + n + 1 ELSE i + 1
  IN (res.op = "setitem" /\ i >= 0 - n /\ i < n) =>
       /\ res.err = ""
       /\ Items(Cur) = [Items(Old) EXCEPT ![at] = res.args.item]
       /\ SameChain

\* ---- C18 ----
\* the container, the container its slice read returned, and a list
\* holding the container's items, as three different objects
SelfObj == [id |-> "c", items |-> Items(Cur)]

SliceObj == [id |-> "slice", items |-> ContItems(heap, res.cont)]

ListObj == [id |-> "list", items |-> Items(Cur)]

\* C18: == on containers is element-wise: a slice of the container with
\* the same items (in particular c[:]) compares equal to it, the container
\* compares equal to a list of its items, and a slice with other items or
\* another length compares unequal.
C18_ElementwiseEq ==
  (res.op = "getslice" /\ res.err = "") =>
    /\ eq(SliceObj, SelfObj) <=> (SliceObj.items = SelfObj.items)
    /\ eq(SelfObj, ListObj)

\* ---- C19 ----
\* the copy as it was before the last operation
CopyBefore ==
  State(Old.heap, res.args.cont.first, res.args.cont.last, res.args.cont.length)

Mutations == {"append", "pop", "setitem", "clear"}

\* C19: for a non-empty container c, c[:] is another container with the
\* same items and none of c's links; a later append, pop, item assignment
\* or clear on one of the two leaves the items, the links and the count of
\* the other unchanged.
C19_CopyIsIndependent ==
  /\ (res.op = "getslice" /\ Sl = NoSlice /\ Old.length > 0) =>
       /\ res.err = ""
       /\ ContItems(heap, res.cont) = Items(Cur)
       /\ res.cont.length = length
       /\ res.cont.first # first
       /\ LinksOf(CopyState) \cap LinksOf(Cur) = {}
  /\ (res.op \in Mutations /\ res.args.target = "self") =>
       /\ res.cont = res.args.cont
       /\ links(CopyState) = links(CopyBefore)
       /\ Items(CopyState) = Items(CopyBefore)
       /\ \A l \in LinksOf(CopyBefore) : heap[l] = Old.heap[l]
  /\ (res.op \in Mutations /\ res.args.target = "copy") =>
       /\ first = Old.first
       /\ last = Old.last
       /\ length = Old.length
       /\ links(Cur) = links(Old)
       /\ Items(Cur) = Items(Old)
       /\ \A l \in LinksOf(Old) : heap[l] = Old.heap[l]

\* the middle link of the copy of a three-item container was popped
C19_Witness ==
  /\ res.op = "pop"
  /\ res.args.target = "copy"
  /\ res.err = ""
  /\ Old.length = 3
  /\ res.ret = links(CopyBefore)[2]
  /\ res.cont.length = 2
  /\ Len(Items(Cur)) = 3

\* ---- C20 ----
\* the last slice has a Link as start, a relative offset as stop, no step
LinkSlice == Sl.link # None /\ Sl.stop # Omitted /\ Sl.step = Omitted

\* C20: with a Link at index i as start, an offset k as stop and no step,
\* the slice read returns the items an index-based slice from i over k
\* positions in direction sign(k) returns, and a slice assignment through
\* the same slice writes to exactly the links the read visits.
C20_LinkSliceSpan ==
  LET pos == Targeted(Old, Sl, 0)
      r == Items(Old)
  IN /\ (res.op = "getslice" /\ LinkSlice) =>
          /\ res.err = ""
          /\ ContItems(heap, res.cont) = [j \in 1..Len(pos) |-> r[pos[j] + 1]]
     /\ (res.op = "setslice" /\ LinkSlice /\ Len(Repl) = Len(pos)) =>
          /\ res.err = ""
          /\ Items(Cur) = RefAssignAt(r, pos, Repl)
          /\ SameChain

\* ---- C21 ----
\* C21: extend(items, link) for a link at index i of a container holding S
\* (the tail or any other link) puts the items in order right after that
\* link: S[:i+1] + items + S[i+1:], and len grows by the number of items.
C21_ExtendAfterLink ==
  LET s == Items(Old)
      link == res.args.link
  IN (res.op = "extend" /\ link # None) =>
       /\ Items(Cur) = InsertSeq(s, IndexOf(Old, link) + 1, res.args.items)
       /\ length = Old.length + Len(res.args.items)

\* ---- C22 ----
\* C22: append and appendleft return the link that now holds the item in
\* the container, whatever the container held (nothing included); given a
\* popped link as newlink, that same link is returned, holding the item.
C22_AppendReturnsLink ==
  (res.op \in {"append", "appendleft"} /\ res.err = "") =>
    /\ res.ret # None
    /\ res.ret \in OwnLinks
    /\ heap[res.ret].item = res.args.item
    /\ res.ret \notin {links(Old)[j] : j \in 1..Len(links(Old))}
    /\ res.args.newlink # None => res.ret = res.args.newlink

\* ---- C23 ----
\* C23: for the link at index i of a container of length n, link >> a and
\* link << -a return the link at index i + a when that is in [0, n), the
\* link itself for a = 0, and None when i + a is outside [0, n): never a
\* link nearer than asked for.
C23_ShiftExact ==
  LET n == Old.length
      link == res.args.link
      a == IF res.op = "rshift" THEN res.args.amount ELSE 0 - res.args.amount
      at == IndexOf(Old, link) + a
  IN res.op \in {"rshift", "lshift"} =>
       /\ res.err = ""
       /\ (at >= 0 /\ at < n) => res.ret = links(Old)[at + 1]
       /\ (at < 0 \/ at >= n) => res.ret = None
       /\ a = 0 => res.ret = link

\* the tail of a three-item container was shifted left by two, to the head
C23_Witness ==
  /\ res.op = "lshift"
  /\ Old.length = 3
  /\ res.args.link = Old.last
  /\ res.args.amount = 2
  /\ res.ret = Old.first

\* ---- C24 ----
\* C24: container[i] and container(i) for an integer i outside [-len, len),
\* and pop() without argument on an empty container, fail with IndexError
\* and no other kind of error, and leave first, last, len and every link
\* as they were.
C24_IndexErrors ==
  LET n == Old.length
      i == res.args.idx
  IN /\ (res.op \in {"getitem", "call"} /\ (i < 0 - n \/ i >= n)) =>
          /\ res.err = "IndexError"
          /\ Cur = Old
     /\ (res.op = "pop" /\ n = 0 /\ res.args.pos = [kind |-> "link", v |-> None]) =>
          /\ res.err = "IndexError"
          /\ Cur = Old

\* an index two past the tail of a two-item container was read
C24_Witness ==
  /\ res.op = "getitem"
  /\ Old.length = 2
  /\ res.args.idx = 3
  /\ res.err = "IndexError"

\* ---- C25 ----
\* C25: a slice read that starts from a link and whose offset runs past
\* either end of the list (any non-zero step, the offset given or omitted)
\* visits only the links that exist and ends without error: link_islice
\* never yields None.
C25_NoNullYield ==
  LET it == link_islice(Old, Sl.link, Sl.stop, Sl.step)
      pos == Targeted(Old, Sl, 0)
      r == Items(Old)
  IN (res.op = "getslice" /\ Sl.link # None /\ Sl.step # Some(0)) =>
       /\ \A j \in 1..Len(it) : it[j] # None
       /\ res.err = ""
       /\ ContItems(heap, res.cont) = [j \in 1..Len(pos) |-> r[pos[j] + 1]]

\* ---- C26 ----
\* C26: when the replacement of a unit-step slice assignment is shorter
\* than the span (c[:] = () included), every surplus link of the span ends
\* with pre = post = None and no item, the links around them are joined
\* (or first/last moved), and len goes down by the number of links removed.
C26_SurplusUnlinked ==
  LET ix == indices(Sl, Old.length)
      span == RangeLen(ix)
      k == Len(Repl)
      surplus == {links(Old)[j] : j \in (ix.start + k + 1)..(ix.start + span)}
      kept == SubSeq(links(Old), 1, ix.start + k)
                \o SubSeq(links(Old), ix.start + span + 1, Old.length)
  IN (/\ res.op = "setslice"
      /\ Sl.link = None
      /\ Sl.step \in {Omitted, Some(1)}
      /\ Old.length > 0
      /\ k < span) =>
       /\ res.err = ""
       /\ \A l \in surplus : heap[l] = Link(None, None, None)
       /\ links(Cur) = kept
       /\ length = Old.length - (span - k)
       /\ WellFormed(Cur)

\* ---- C27 ----
\* C27: on an empty container every index-based slice read with a step
\* other than 0 (c[:] and c[::-1] among them) returns a new empty
\* container and raises nothing.
C27_EmptySliceRead ==
  (res.op = "getslice" /\ Old.length = 0 /\ Sl.link = None /\ Sl.step # Some(0)) =>
    /\ res.err = ""
    /\ res.cont.length = 0
    /\ ContItems(heap, res.cont) = <<>>

\* ---- C28 ----
\* C28: container(i) and container[i] on a container of n items, for i
\* brought into [0, n), walk from the nearer end: exactly min(i, n - 1 - i)
\* next/prev steps, never more than n/2.
C28_NearestEnd ==
  LET n == Old.length
      idx == res.args.idx
      i == IF idx < 0 THEN idx + n ELSE idx
      hops == CallHops(Old, idx)
  IN (res.op \in {"getitem", "call"} /\ idx >= 0 - n /\ idx < n) =>
       /\ hops = (IF i < n - 1 - i THEN i ELSE n - 1 - i)
       /\ 2 * hops <= n

====
